---- MODULE Spec2Model ----
(***************************************************************************)
(* Inventory manager (src/main.cpp): the item store, the sales ledger, the *)
(* two id counters and the two CSV files, with the logic functions         *)
(* logic_addItem, logic_deleteItem, logic_updateItem, logic_sellItem and   *)
(* the persistence functions saveData and loadData as actions.  Under Spec *)
(* the functions are called in any order, as a test build (UNIT_TEST) can; *)
(* under MainSpec they are called as main does: loadData once, then the    *)
(* menu loop with its handlers, until choice 10 saves and returns.         *)
(***************************************************************************)
EXTENDS Integers, Sequences, FiniteSets, TLC

(***************************************************************************)
(* Machine integers.  `int` is a 32-bit two's complement integer and       *)
(* `double` an IEEE binary64.  Every double the model handles is a         *)
(* multiple of 0.5 below 2^30 in magnitude, stored as its number of halves *)
(* (5.0 is 10, 0.5 is 1): on such values subtraction and the product with  *)
(* an int are exact in binary64, so the integer arithmetic below is the    *)
(* arithmetic of the program.  The sign of a zero is not kept (-0.0 and    *)
(* 0.0 compare equal in the program).                                      *)
(***************************************************************************)
IntMax == 2147483647
IntMin == -IntMax - 1

Min(S) == CHOOSE x \in S : \A y \in S : x <= y
Max(S) == CHOOSE x \in S : \A y \in S : x >= y

RECURSIVE Pow10(_)
Pow10(k) == IF k = 0 THEN 1 ELSE 10 * Pow10(k - 1)

(***************************************************************************)
(* Text.  A string is a sequence of one-character strings.                 *)
(***************************************************************************)
DigitChars == <<"0", "1", "2", "3", "4", "5", "6", "7", "8", "9">>
IsDigit(c) == \E d \in 1..10 : DigitChars[d] = c
DigitVal(c) == (CHOOSE d \in 1..10 : DigitChars[d] = c) - 1
\* isspace() of the C locale, as strtol and strtod skip it
IsSpace(c) == c \in {" ", "\t", "\n", "\r", "\f"}

\* operator<<(int): decimal digits of a non-negative int
RECURSIVE NatDigits(_)
NatDigits(n) ==
    IF n < 10 THEN <<DigitChars[n + 1]>>
    ELSE NatDigits(n \div 10) \o <<DigitChars[(n % 10) + 1]>>

\* operator<<(int): sign and decimal digits; |IntMin| is not an int, so the
\* digits of a negative n are taken from m = -(n + 1), |n| = m + 1
FormatInt(n) ==
    IF n >= 0 THEN NatDigits(n)
    ELSE LET m == -(n + 1)
             last == ((m % 10) + 1) % 10
             rest == IF m % 10 = 9 THEN (m \div 10) + 1 ELSE m \div 10
         IN <<"-">> \o (IF rest = 0 THEN <<>> ELSE NatDigits(rest))
                    \o <<DigitChars[last + 1]>>

\* trim(): drop leading and trailing " \t\n\r"
trim(s) ==
    LET keep == {i \in 1..Len(s) : s[i] \notin {" ", "\t", "\n", "\r"}}
    IN IF keep = {} THEN <<>> ELSE SubSeq(s, Min(keep), Max(keep))

\* std::getline(stream, piece, delim) until it fails.  A getline that meets
\* the end of the text before any character fails, so a text ending in the
\* delimiter (or an empty text) yields no last empty piece.
RECURSIVE GetLines(_, _)
GetLines(text, delim) ==
    IF text = <<>> THEN <<>>
    ELSE LET at == {i \in 1..Len(text) : text[i] = delim}
         IN IF at = {} THEN <<text>>
            ELSE <<SubSeq(text, 1, Min(at) - 1)>>
                     \o GetLines(SubSeq(text, Min(at) + 1, Len(text)), delim)

parseCSV(line) == GetLines(line, ",")

\* index of the first character at or after i that is not white space
SkipSpace(s, i) ==
    LET ns == {j \in i..Len(s) : ~IsSpace(s[j])}
    IN IF ns = {} THEN Len(s) + 1 ELSE Min(ns)

\* index just after the run of digits that starts at i
DigitRunEnd(s, i) ==
    LET nd == {j \in i..Len(s) : ~IsDigit(s[j])}
    IN IF nd = {} THEN Len(s) + 1 ELSE Min(nd)

\* -(the number the digits s[i..j-1] spell), or 1 when that is below IntMin
RECURSIVE NegAcc(_, _, _, _)
NegAcc(s, i, j, acc) ==
    IF i >= j THEN acc
    ELSE LET d == DigitVal(s[i])
         IN IF acc > -(IntMax \div 10) \/ (acc = -(IntMax \div 10) /\ d <= 8)
            THEN NegAcc(s, i + 1, j, acc * 10 - d)
            ELSE 1

\* a sign character at b: its length, and whether it is a minus
SignLen(s, b) == IF b <= Len(s) /\ s[b] \in {"+", "-"} THEN 1 ELSE 0
IsMinus(s, b) == b <= Len(s) /\ s[b] = "-"

\* the conversion's result: ok is FALSE where the library function throws
Converted(val) == [ok |-> TRUE, val |-> val]
Throws == [ok |-> FALSE, val |-> 0]

\* stoi, given the sign, whether a digit was found and NegAcc of the digits
StoiResult(neg, none, nv) ==
    IF none \/ nv = 1 \/ (~neg /\ nv = IntMin) THEN Throws
    ELSE Converted(IF neg THEN nv ELSE -nv)

StoiDigits(s, neg, d0) ==
    StoiResult(neg, DigitRunEnd(s, d0) = d0, NegAcc(s, d0, DigitRunEnd(s, d0), 0))

StoiAt(s, b) == StoiDigits(s, IsMinus(s, b), b + SignLen(s, b))

\* std::stoi: white space, a sign, digits; what follows the digits is
\* ignored.  It throws when there is no digit (invalid_argument) or the
\* value is no int (out_of_range).
stoi(s) == StoiAt(s, SkipSpace(s, 1))

\* the natural number the digits s[i..j-1] spell
RECURSIVE NatAcc(_, _, _, _)
NatAcc(s, i, j, acc) ==
    IF i >= j THEN acc ELSE NatAcc(s, i + 1, j, acc * 10 + DigitVal(s[i]))

\* the value mant * 10^scale in halves
Halves(mant, scale) ==
    IF scale >= 0 THEN 2 * mant * Pow10(scale) ELSE (2 * mant) \div Pow10(-scale)

Signed(neg, val) == IF neg THEN -val ELSE val

\* the exponent "e[+-]digits" at f1: its value, 0 when there is none (an
\* "e" that no digit follows is not part of the number)
ExponentAt(s, neg, e0) == Signed(neg, NatAcc(s, e0, DigitRunEnd(s, e0), 0))

Exponent(s, f1) ==
    IF f1 <= Len(s) /\ s[f1] \in {"e", "E"}
    THEN ExponentAt(s, IsMinus(s, f1 + 1), f1 + 1 + SignLen(s, f1 + 1))
    ELSE 0

\* stod, given the sign, the integer digits s[i0..i1-1] and the fraction
\* digits s[f0..f1-1]
StodResult(s, neg, i0, i1, f0, f1) ==
    IF (i1 - i0) + (f1 - f0) = 0 THEN Throws
    ELSE Converted(Signed(neg, Halves(NatAcc(s, f0, f1, NatAcc(s, i0, i1, 0)),
                                      Exponent(s, f1) - (f1 - f0))))

StodFraction(s, neg, i0, i1, f0) == StodResult(s, neg, i0, i1, f0, DigitRunEnd(s, f0))

StodPoint(s, neg, i0, i1) ==
    StodFraction(s, neg, i0, i1, IF i1 <= Len(s) /\ s[i1] = "." THEN i1 + 1 ELSE i1)

StodDigits(s, neg, i0) == StodPoint(s, neg, i0, DigitRunEnd(s, i0))

StodAt(s, b) == StodDigits(s, IsMinus(s, b), b + SignLen(s, b))

\* std::stod on decimal text: white space, a sign, digits with an optional
\* point, an optional exponent.  It throws when there is no digit
\* (invalid_argument).  The value is in halves.
stod(s) == StodAt(s, SkipSpace(s, 1))

\* drop the trailing "0" characters of a digit string
RECURSIVE StripZeros(_)
StripZeros(ds) ==
    IF ds # <<>> /\ ds[Len(ds)] = "0" THEN StripZeros(SubSeq(ds, 1, Len(ds) - 1)) ELSE ds

\* the digits d1..dn as "d1.d2...dn", or "d1" alone
Pointed(ds) ==
    IF Len(ds) > 1 THEN <<ds[1], ".">> \o SubSeq(ds, 2, Len(ds)) ELSE ds

\* %g in exponent style: the 6 significant digits m (100000..999999) and the
\* decimal exponent x >= 6, trailing zeros and a bare point removed
Scientific(m, x) ==
    Pointed(StripZeros(NatDigits(m))) \o <<"e", "+">>
        \o (IF x < 10 THEN <<"0">> ELSE <<>>) \o NatDigits(x)

\* q + r/p + half/(2p) rounded to an integer, ties to even
RoundHalfEven(q, r, half, p) ==
    IF 2 * r + half > p \/ (2 * r + half = p /\ q % 2 = 1) THEN q + 1 ELSE q

\* %g of a value whose integer part has n >= 6 digits, m being its first 6
\* significant digits after rounding
Rounded(n, m) ==
    IF m = 1000000 THEN Scientific(100000, n)
    ELSE IF n = 6 THEN NatDigits(m)
    ELSE Scientific(m, n - 1)

\* %g, precision 6, of whole + half/2 whose integer part has n digits
FormatDigits(whole, half, n) ==
    IF n <= 5
    THEN NatDigits(whole) \o (IF half = 1 THEN <<".", "5">> ELSE <<>>)
    ELSE Rounded(n, RoundHalfEven(whole \div Pow10(n - 6), whole % Pow10(n - 6),
                                  half, Pow10(n - 6)))

FormatMagnitude(a) == FormatDigits(a \div 2, a % 2, Len(NatDigits(a \div 2)))

\* operator<<(double) with the stream's default format: %g, precision 6,
\* round-half-even on the exact value.  h is the value in halves.
FormatDouble(h) ==
    IF h < 0 THEN <<"-">> \o FormatMagnitude(-h) ELSE FormatMagnitude(h)

(***************************************************************************)
(* Program state.                                                          *)
(***************************************************************************)
VARIABLES
    items,        \* vector<Item> items
    sales,        \* vector<Sale> sales
    nextItemId,   \* int nextItemId
    nextSaleId,   \* int nextSaleId
    itemsFile,    \* items.csv: whether it exists, and its text
    salesFile,    \* sales.csv
    profitOut,    \* the caller's double that logic_sellItem gets by reference
    status,       \* "start" before main has loaded, "running", "exited" after
                  \* return 0, "aborted" once the process was terminated
    call,         \* the last call made: function, arguments, returned value
    issued,       \* the largest id logic_addItem has returned so far (0: none)
    distinctRows, \* whether the item rows of the first items.csv had distinct ids
    calls,        \* the number of calls made so far
    choice        \* int choice of main

vars == <<items, sales, nextItemId, nextSaleId, itemsFile, salesFile,
          profitOut, status, call, issued, distinctRows, calls, choice>>

memory == <<items, sales, nextItemId, nextSaleId>>

Item(id, name, size, qty, buy, sell) ==
    [id |-> id, name |-> name, size_color |-> size, quantity |-> qty,
     purchase_price |-> buy, selling_price |-> sell]

Sale(id, itemId, itemName, qty, profit, date) ==
    [id |-> id, item_id |-> itemId, item_name |-> itemName,
     quantity_sold |-> qty, profit |-> profit, date_sold |-> date]

Called(op, id, name, size, qty, buy, sell, ret) ==
    [op |-> op, id |-> id, name |-> name, size |-> size, qty |-> qty,
     buy |-> buy, sell |-> sell, ret |-> ret, opened |-> <<>>]

\* find_if searching from the back: the index of the last item with this id
find_if_last(its, id) ==
    LET hit == {i \in 1..Len(its) : its[i].id = id}
    IN IF hit = {} THEN 0 ELSE Max(hit)

\* find_if(items.begin(), items.end(), id match): the index of the first
\* item with this id, 0 for items.end()
find_if(its, id) ==
    LET hit == {i \in 1..Len(its) : its[i].id = id}
    IN IF hit = {} THEN 0 ELSE Min(hit)

NoFile == [exists |-> FALSE, text |-> <<>>]

(***************************************************************************)
(* Bounds of the model and the arguments the calls are made with.          *)
(***************************************************************************)
MaxCalls == 4      \* the functions are called at most this many times in a run
MaxItems == 4      \* logic_addItem is called while the store holds fewer items
MaxSales == 2      \* logic_sellItem is called while the ledger holds fewer sales

Cog == <<"C", "o", "g">>
Green == <<"G", "r", "e", "e", "n">>

IdArgs == {2, 4}                    \* ids passed to delete, update and sell
NameArgs == {Cog}
SizeArgs == {Green}
StockArgs == {-1, IntMax}           \* quantities passed to add and update
SellArgs == {-1, 2, 5}              \* quantities passed to sell
BuyArgs == {2}                      \* purchase prices, in halves: 1.0
PriceArgs == {4, 2469135}           \* selling prices, in halves: 2.0, 1234567.5
\* what localtime() may return: struct tm fields
Clock == {[tm_year |-> 126, tm_mon |-> 10, tm_mday |-> 3,
           tm_hour |-> 4, tm_min |-> 5, tm_sec |-> 9]}

(***************************************************************************)
(* Core logic functions.                                                   *)
(***************************************************************************)
\* a - b on int.  When the difference is no int the behaviour is undefined:
\* a build either wraps modulo 2^32 or traps (-ftrapv, sanitizers).
SubInt(a, b) ==
    IF b < 0 /\ a > IntMax + b
    THEN {[trap |-> FALSE, val |-> (a - IntMax - 1) - (b + IntMax + 1)],
          [trap |-> TRUE, val |-> a]}
    ELSE IF b > 0 /\ a < IntMin + b
    THEN {[trap |-> FALSE, val |-> (a + IntMax + 1) + (IntMax - (b - 1))],
          [trap |-> TRUE, val |-> a]}
    ELSE {[trap |-> FALSE, val |-> a - b]}

\* setw(2) with setfill('0')
Pad2(n) == IF n < 10 THEN <<"0">> \o NatDigits(n) ELSE NatDigits(n)

getCurrentDate(tm) ==
    NatDigits(1900 + tm.tm_year) \o <<"-">> \o Pad2(1 + tm.tm_mon) \o <<"-">>
        \o Pad2(tm.tm_mday) \o <<" ">> \o Pad2(tm.tm_hour) \o <<":">>
        \o Pad2(tm.tm_min) \o <<":">> \o Pad2(tm.tm_sec)

\* logic_addItem with "nextItemId++" written "nextItemId": the counter stays
logic_addItem_noIncrement(name, size, qty, buy, sell) ==
    /\ items' = Append(items, Item(nextItemId, name, size, qty, buy, sell))
    /\ nextItemId' = nextItemId
    /\ call' = Called("add", 0, name, size, qty, buy, sell, nextItemId)
    /\ issued' = IF nextItemId > issued THEN nextItemId ELSE issued
    /\ UNCHANGED <<sales, nextSaleId, itemsFile, salesFile, profitOut, status,
                   distinctRows>>

logic_addItem(name, size, qty, buy, sell) ==
    /\ items' = Append(items, Item(nextItemId, name, size, qty, buy, sell))
    /\ nextItemId' = nextItemId + 1
    /\ call' = Called("add", 0, name, size, qty, buy, sell, nextItemId)
    /\ issued' = IF nextItemId > issued THEN nextItemId ELSE issued
    /\ UNCHANGED <<sales, nextSaleId, itemsFile, salesFile, profitOut, status,
                   distinctRows>>

\* items.pop_back() in place of items.erase(it)
erase_popBack(its, it) == SubSeq(its, 1, Len(its) - 1)

\* items.erase(it)
erase(its, it) == SubSeq(its, 1, it - 1) \o SubSeq(its, it + 1, Len(its))

logic_deleteItem(id) ==
    LET it == find_if(items, id)
    IN /\ IF it # 0
          THEN /\ items' = erase(items, it)
               /\ call' = Called("delete", id, <<>>, <<>>, 0, 0, 0, TRUE)
          ELSE /\ items' = items
               /\ call' = Called("delete", id, <<>>, <<>>, 0, 0, 0, FALSE)
       /\ UNCHANGED <<sales, nextItemId, nextSaleId, itemsFile, salesFile,
                      profitOut, status, issued, distinctRows>>

\* logic_updateItem writing the three fields of every item that has the id
logic_updateItem_everyMatch(id, qty, buy, sell) ==
    /\ items' = [k \in 1..Len(items) |->
                    IF items[k].id = id
                    THEN [items[k] EXCEPT !.quantity = qty, !.purchase_price = buy,
                                          !.selling_price = sell]
                    ELSE items[k]]
    /\ call' = Called("update", id, <<>>, <<>>, qty, buy, sell, find_if(items, id) # 0)
    /\ UNCHANGED <<sales, nextItemId, nextSaleId, itemsFile, salesFile,
                   profitOut, status, issued, distinctRows>>

logic_updateItem(id, qty, buy, sell) ==
    LET it == find_if(items, id)
    IN /\ IF it # 0
          THEN /\ items' = [items EXCEPT ![it].quantity = qty,
                                         ![it].purchase_price = buy,
                                         ![it].selling_price = sell]
               /\ call' = Called("update", id, <<>>, <<>>, qty, buy, sell, TRUE)
          ELSE /\ items' = items
               /\ call' = Called("update", id, <<>>, <<>>, qty, buy, sell, FALSE)
       /\ UNCHANGED <<sales, nextItemId, nextSaleId, itemsFile, salesFile,
                      profitOut, status, issued, distinctRows>>

\* SellCode without the stock check (line 172 left out)
SellCode_noStockCheck(its, id, qty) ==
    IF find_if(its, id) = 0 THEN 1 ELSE 0

\* the two early returns of logic_sellItem: 1 not found, 2 not enough
\* stock, 0 when the sale goes ahead
SellCode(its, id, qty) ==
    IF find_if(its, id) = 0 THEN 1
    ELSE IF qty > its[find_if(its, id)].quantity THEN 2
    ELSE 0

\* (selling_price - purchase_price) * qty, in halves
Profit(item, qty) == (item.selling_price - item.purchase_price) * qty

\* ret is -1 when the call does not return (the subtraction trapped)
logic_sellItem(id, qty, now) ==
    LET it == find_if(items, id)
        code == SellCode(items, id, qty)
    IN /\ UNCHANGED <<nextItemId, itemsFile, salesFile, issued, distinctRows>>
       /\ IF code # 0
          THEN /\ call' = Called("sell", id, <<>>, <<>>, qty, 0, 0, code)
               /\ UNCHANGED <<items, sales, nextSaleId, profitOut, status>>
          ELSE \E left \in SubInt(items[it].quantity, qty) :
                   IF left.trap
                   THEN /\ call' = Called("sell", id, <<>>, <<>>, qty, 0, 0, -1)
                        /\ status' = "aborted"
                        /\ UNCHANGED <<items, sales, nextSaleId, profitOut>>
                   ELSE /\ call' = Called("sell", id, <<>>, <<>>, qty, 0, 0, 0)
                        /\ items' = [items EXCEPT ![it].quantity = left.val]
                        /\ sales' = Append(sales,
                               Sale(nextSaleId, items[it].id, items[it].name, qty,
                                    Profit(items[it], qty), getCurrentDate(now)))
                        /\ nextSaleId' = nextSaleId + 1
                        /\ profitOut' = Profit(items[it], qty)
                        /\ UNCHANGED status

(***************************************************************************)
(* File persistence.                                                       *)
(***************************************************************************)
ItemLine(item) ==
    FormatInt(item.id) \o <<",">> \o item.name \o <<",">> \o item.size_color
        \o <<",">> \o FormatInt(item.quantity) \o <<",">>
        \o FormatDouble(item.purchase_price) \o <<",">>
        \o FormatDouble(item.selling_price) \o <<"\n">>

SaleLine(sale) ==
    FormatInt(sale.id) \o <<",">> \o FormatInt(sale.item_id) \o <<",">>
        \o sale.item_name \o <<",">> \o FormatInt(sale.quantity_sold) \o <<",">>
        \o FormatDouble(sale.profit) \o <<",">> \o sale.date_sold \o <<"\n">>

RECURSIVE ItemsText(_)
ItemsText(its) == IF its = <<>> THEN <<>> ELSE ItemLine(Head(its)) \o ItemsText(Tail(its))

RECURSIVE SalesText(_)
SalesText(sls) == IF sls = <<>> THEN <<>> ELSE SaleLine(Head(sls)) \o SalesText(Tail(sls))

\* saveData returning at the first file that cannot be opened
saveData_stopsAtFailure(openItems, openSales) ==
    /\ itemsFile' = IF openItems THEN [exists |-> TRUE, text |-> ItemsText(items)]
                    ELSE itemsFile
    /\ salesFile' = IF openItems /\ openSales
                    THEN [exists |-> TRUE, text |-> SalesText(sales)]
                    ELSE salesFile
    /\ call' = [Called("save", 0, <<>>, <<>>, 0, 0, 0, 0)
                    EXCEPT !.opened = <<openItems, openSales>>]
    /\ UNCHANGED <<items, sales, nextItemId, nextSaleId, profitOut, status, issued,
                   distinctRows>>

\* openItems, openSales: whether each ofstream could be opened.  Opening
\* truncates the file; a file that cannot be opened is left as it is.
saveData(openItems, openSales) ==
    /\ itemsFile' = IF openItems THEN [exists |-> TRUE, text |-> ItemsText(items)]
                    ELSE itemsFile
    /\ salesFile' = IF openSales THEN [exists |-> TRUE, text |-> SalesText(sales)]
                    ELSE salesFile
    /\ call' = [Called("save", 0, <<>>, <<>>, 0, 0, 0, 0)
                    EXCEPT !.opened = <<openItems, openSales>>]
    /\ UNCHANGED <<items, sales, nextItemId, nextSaleId, profitOut, status, issued,
                   distinctRows>>

\* the lines getline(file, line) delivers
FileLines(file) == IF file.exists THEN GetLines(file.text, "\n") ELSE <<>>

Widget == <<"W", "i", "d", "g", "e", "t">>
Small == <<"S", "m", "a", "l", "l">>
Bolt == <<"B", "o", "l", "t">>
Red == <<"R", "e", "d">>
Gadget == <<"G", "a", "d", "g", "e", "t">>
Blue == <<"B", "l", "u", "e">>

\* seedData with the ids written as 1, 2, 3 and the counter left alone
seedData_literalIds(its, next) ==
    [items |-> its \o <<Item(1, Widget, Small, 10, 10, 16),
                        Item(2, Bolt, Red, 3, 1, 2),
                        Item(3, Gadget, Blue, 20, 20, 30)>>,
     next |-> next]

\* seedData(): three push_back with nextItemId++ (prices in halves)
seedData(its, next) ==
    [items |-> its \o <<Item(next, Widget, Small, 10, 10, 16),
                        Item(next + 1, Bolt, Red, 3, 1, 2),
                        Item(next + 2, Gadget, Blue, 20, 20, 30)>>,
     next |-> next + 3]

\* the fields of an item row converted as the loop body does: ok is FALSE
\* when stoi or stod throws
ItemParsed(id, name, size, qty, buy, sell) ==
    [ok |-> id.ok /\ qty.ok /\ buy.ok /\ sell.ok,
     row |-> Item(id.val, name, size, qty.val, buy.val, sell.val)]

ItemOfRow(data) ==
    ItemParsed(stoi(data[1]), data[2], data[3], stoi(data[4]), stod(data[5]),
               stod(data[6]))

\* The item loop of loadData from the lines left, with the items pushed and
\* the counter so far: the set of its outcomes.  ok is FALSE when the loop
\* is left by an exception of stoi or stod, or by a trap.  id + 1 on
\* id = INT_MAX is undefined: a build wraps or traps.
RECURSIVE LoadItems(_, _, _)

\* PushItem without line 271: the counter is not advanced past a loaded id
PushItem_keepsCounter(rest, its, next, parsed) ==
    IF ~parsed.ok THEN {[items |-> its, next |-> next, ok |-> FALSE]}
    ELSE LoadItems(rest, Append(its, parsed.row), next)

PushItem(rest, its, next, parsed) ==
    IF ~parsed.ok THEN {[items |-> its, next |-> next, ok |-> FALSE]}
    ELSE IF parsed.row.id < next
    THEN LoadItems(rest, Append(its, parsed.row), next)
    ELSE IF parsed.row.id < IntMax
    THEN LoadItems(rest, Append(its, parsed.row), parsed.row.id + 1)
    ELSE LoadItems(rest, Append(its, parsed.row), IntMin)
             \cup {[items |-> Append(its, parsed.row), next |-> next, ok |-> FALSE]}

LoadItems(lines, its, next) ==
    IF lines = <<>> THEN {[items |-> its, next |-> next, ok |-> TRUE]}
    ELSE IF trim(Head(lines)) = <<>> \/ Len(parseCSV(Head(lines))) < 6
    THEN LoadItems(Tail(lines), its, next)
    ELSE PushItem(Tail(lines), its, next, ItemOfRow(parseCSV(Head(lines))))

SaleParsed(id, itemId, name, qty, profit, date) ==
    [ok |-> id.ok /\ itemId.ok /\ qty.ok /\ profit.ok,
     row |-> Sale(id.val, itemId.val, name, qty.val, profit.val, date)]

SaleOfRow(data) ==
    SaleParsed(stoi(data[1]), stoi(data[2]), data[3], stoi(data[4]), stod(data[5]),
               data[6])

\* The sale loop of loadData, likewise.
RECURSIVE LoadSales(_, _, _)

PushSale(rest, sls, next, parsed) ==
    IF ~parsed.ok THEN {[sales |-> sls, next |-> next, ok |-> FALSE]}
    ELSE IF parsed.row.id < next
    THEN LoadSales(rest, Append(sls, parsed.row), next)
    ELSE IF parsed.row.id < IntMax
    THEN LoadSales(rest, Append(sls, parsed.row), parsed.row.id + 1)
    ELSE LoadSales(rest, Append(sls, parsed.row), IntMin)
             \cup {[sales |-> Append(sls, parsed.row), next |-> next, ok |-> FALSE]}

LoadSales(lines, sls, next) ==
    IF lines = <<>> THEN {[sales |-> sls, next |-> next, ok |-> TRUE]}
    ELSE IF trim(Head(lines)) = <<>> \/ Len(parseCSV(Head(lines))) < 6
    THEN LoadSales(Tail(lines), sls, next)
    ELSE PushSale(Tail(lines), sls, next, SaleOfRow(parseCSV(Head(lines))))

\* LoadOutcomes with line 301 written "if (items.empty())": an empty store
\* is seeded even when sales were loaded
LoadOutcomes_seedsEmptyStore(ifile, sfile) ==
    UNION {
        IF ~li.ok
        THEN {[items |-> li.items, sales |-> <<>>, nextItemId |-> li.next,
               nextSaleId |-> 1, ok |-> FALSE]}
        ELSE {
            IF ~ls.ok
            THEN [items |-> li.items, sales |-> ls.sales, nextItemId |-> li.next,
                  nextSaleId |-> ls.next, ok |-> FALSE]
            ELSE IF li.items = <<>>
            THEN [items |-> seedData(li.items, li.next).items, sales |-> ls.sales,
                  nextItemId |-> seedData(li.items, li.next).next,
                  nextSaleId |-> ls.next, ok |-> TRUE]
            ELSE [items |-> li.items, sales |-> ls.sales, nextItemId |-> li.next,
                  nextSaleId |-> ls.next, ok |-> TRUE]
            : ls \in LoadSales(FileLines(sfile), <<>>, 1)}
        : li \in LoadItems(FileLines(ifile), <<>>, 1)}

\* What loadData leaves in memory: the set of outcomes
\* [items, sales, nextItemId, nextSaleId, ok], ok FALSE when it did not return.
LoadOutcomes(ifile, sfile) ==
    UNION {
        IF ~li.ok
        THEN {[items |-> li.items, sales |-> <<>>, nextItemId |-> li.next,
               nextSaleId |-> 1, ok |-> FALSE]}
        ELSE {
            IF ~ls.ok
            THEN [items |-> li.items, sales |-> ls.sales, nextItemId |-> li.next,
                  nextSaleId |-> ls.next, ok |-> FALSE]
            ELSE IF li.items = <<>> /\ ls.sales = <<>>
            THEN [items |-> seedData(li.items, li.next).items, sales |-> ls.sales,
                  nextItemId |-> seedData(li.items, li.next).next,
                  nextSaleId |-> ls.next, ok |-> TRUE]
            ELSE [items |-> li.items, sales |-> ls.sales, nextItemId |-> li.next,
                  nextSaleId |-> ls.next, ok |-> TRUE]
            : ls \in LoadSales(FileLines(sfile), <<>>, 1)}
        : li \in LoadItems(FileLines(ifile), <<>>, 1)}

loadData ==
    \E m \in LoadOutcomes(itemsFile, salesFile) :
        /\ items' = m.items
        /\ sales' = m.sales
        /\ nextItemId' = m.nextItemId
        /\ nextSaleId' = m.nextSaleId
        /\ status' = IF m.ok THEN "running" ELSE "aborted"
        /\ call' = Called("load", 0, <<>>, <<>>, 0, 0, 0, 0)
        /\ UNCHANGED <<itemsFile, salesFile, profitOut, issued, distinctRows>>

(***************************************************************************)
(* The files the program may find when it starts.                          *)
(***************************************************************************)
\* two rows with the same id:  2,Bolt,Red,3,0.5,1  and  2,Nut,,7,1,2.5
DuplicateIdItems ==
    [exists |-> TRUE,
     text |-> <<"2", ",", "B", "o", "l", "t", ",", "R", "e", "d", ",", "3", ",",
                "0", ".", "5", ",", "1", "\n",
                "2", ",", "N", "u", "t", ",", ",", "7", ",", "1", ",",
                "2", ".", "5", "\n">>]

\* a row of five fields (the sixth is empty and ends the line) and a blank
\* line:  1,Nut,,7,1,  and a line holding one space
SkippedRows ==
    [exists |-> TRUE,
     text |-> <<"1", ",", "N", "u", "t", ",", ",", "7", ",", "1", ",", "\n",
                " ", "\n">>]

\* the same two lines and then the row  2,Bolt,Red,3,0.5,1
MixedItems ==
    [exists |-> TRUE,
     text |-> <<"1", ",", "N", "u", "t", ",", ",", "7", ",", "1", ",", "\n",
                " ", "\n", "2", ",", "B", "o", "l", "t", ",", "R", "e", "d",
                ",", "3", ",", "0", ".", "5", ",", "1", "\n">>]

\* a good row and then a row whose id is no number:  x,Nut,,7,1,2
BadNumberItems ==
    [exists |-> TRUE,
     text |-> <<"2", ",", "B", "o", "l", "t", ",", "R", "e", "d", ",", "3",
                ",", "0", ".", "5", ",", "1", "\n", "x", ",", "N", "u", "t",
                ",", ",", "7", ",", "1", ",", "2", "\n">>]

\* one sale:  7,2,Bolt,1,0.5,2026-11-03 04:05:09
OneSale ==
    [exists |-> TRUE,
     text |-> <<"7", ",", "2", ",", "B", "o", "l", "t", ",", "1", ",", "0",
                ".", "5", ",", "2", "0", "2", "6", "-", "1", "1", "-", "0",
                "3", " ", "0", "4", ":", "0", "5", ":", "0", "9", "\n">>]

\* one sale whose id is INT_MAX
MaxIdSale ==
    [exists |-> TRUE,
     text |-> <<"2", "1", "4", "7", "4", "8", "3", "6", "4", "7", ",", "2",
                ",", "B", "o", "l", "t", ",", "1", ",", "0", ".", "5", ",",
                "2", "0", "2", "6", "-", "1", "1", "-", "0", "3", " ", "0",
                "4", ":", "0", "5", ":", "0", "9", "\n">>]

\* the pairs <<items.csv, sales.csv>> the program may find
StartFiles ==
    {<<NoFile, NoFile>>, <<DuplicateIdItems, NoFile>>, <<SkippedRows, NoFile>>,
     <<SkippedRows, OneSale>>, <<MixedItems, MaxIdSale>>, <<BadNumberItems, NoFile>>}

UniqueIds(its) == \A i, j \in 1..Len(its) : its[i].id = its[j].id => i = j

(***************************************************************************)
(* The state machine.                                                      *)
(***************************************************************************)
Init ==
    /\ items = <<>>
    /\ sales = <<>>
    /\ nextItemId = 1
    /\ nextSaleId = 1
    /\ \E f \in StartFiles : itemsFile = f[1] /\ salesFile = f[2]
    /\ profitOut = 0
    /\ status = "running"
    /\ call = Called("none", 0, <<>>, <<>>, 0, 0, 0, 0)
    /\ issued = 0
    /\ calls = 0
    /\ choice = 0
    /\ distinctRows = \A m \in LoadItems(FileLines(itemsFile), <<>>, 1) : UniqueIds(m.items)

\* one more call is made, while the run is alive and within its bound
Calling ==
    /\ status = "running"
    /\ calls < MaxCalls
    /\ calls' = calls + 1
    /\ UNCHANGED choice

AddItem ==
    /\ Calling
    /\ Len(items) < MaxItems
    /\ \E name \in NameArgs, size \in SizeArgs, qty \in StockArgs,
          buy \in BuyArgs, sell \in PriceArgs :
           logic_addItem(name, size, qty, buy, sell)

DeleteItem ==
    /\ Calling
    /\ \E id \in IdArgs : logic_deleteItem(id)

UpdateItem ==
    /\ Calling
    /\ \E id \in IdArgs, qty \in StockArgs, buy \in BuyArgs, sell \in PriceArgs :
           logic_updateItem(id, qty, buy, sell)

SellItem ==
    /\ Calling
    /\ Len(sales) < MaxSales
    /\ \E id \in IdArgs, qty \in SellArgs, now \in Clock : logic_sellItem(id, qty, now)

SaveData ==
    /\ Calling
    /\ \E openItems \in BOOLEAN, openSales \in BOOLEAN : saveData(openItems, openSales)

LoadData ==
    /\ Calling
    /\ loadData

Next == AddItem \/ DeleteItem \/ UpdateItem \/ SellItem \/ SaveData \/ LoadData

Spec == Init /\ [][Next]_vars

(***************************************************************************)
(* The user interface: what the handlers make of the lines they read.      *)
(***************************************************************************)
UpperCase == <<"A", "B", "C", "D", "E", "F", "G", "H", "I", "J", "K", "L", "M",
               "N", "O", "P", "Q", "R", "S", "T", "U", "V", "W", "X", "Y", "Z">>
LowerCase == <<"a", "b", "c", "d", "e", "f", "g", "h", "i", "j", "k", "l", "m",
               "n", "o", "p", "q", "r", "s", "t", "u", "v", "w", "x", "y", "z">>

tolower(c) ==
    IF \E k \in 1..26 : UpperCase[k] = c
    THEN LowerCase[CHOOSE k \in 1..26 : UpperCase[k] = c]
    ELSE c

toLowerStr(s) == [k \in 1..Len(s) |-> tolower(s[k])]

isCancel(s) ==
    toLowerStr(trim(s)) \in {<<"c", "a", "n", "c", "e", "l">>, <<"c">>}

\* replace(s.begin(), s.end(), ',', ' ')
replace(s, old, new) == [k \in 1..Len(s) |-> IF s[k] = old THEN new ELSE s[k]]

\* a digit string without its leading zeros
RECURSIVE DropZeros(_)
DropZeros(ds) == IF ds # <<>> /\ ds[1] = "0" THEN DropZeros(Tail(ds)) ELSE ds

\* a <= b, for digit strings of the same length
RECURSIVE DigitsLeq(_, _)
DigitsLeq(a, b) ==
    IF a = <<>> THEN TRUE
    ELSE IF a[1] # b[1] THEN DigitVal(a[1]) < DigitVal(b[1])
    ELSE DigitsLeq(Tail(a), Tail(b))

\* the digits of LONG_MAX, and of -LONG_MIN
LongMaxDigits == <<"9", "2", "2", "3", "3", "7", "2", "0", "3", "6", "8", "5",
                   "4", "7", "7", "5", "8", "0", "7">>
LongMinDigits == <<"9", "2", "2", "3", "3", "7", "2", "0", "3", "6", "8", "5",
                   "4", "7", "7", "5", "8", "0", "8">>

\* whether the number (digits without leading zeros, and sign) is a long
InLong(ds, neg) ==
    \/ Len(ds) < Len(LongMaxDigits)
    \/ /\ Len(ds) = Len(LongMaxDigits)
       /\ DigitsLeq(ds, IF neg THEN LongMinDigits ELSE LongMaxDigits)

\* the number the digits spell, modulo 2^32, as <<high 16 bits, low 16 bits>>
RECURSIVE Low32(_, _, _)
Low32(ds, hi, lo) ==
    IF ds = <<>> THEN <<hi, lo>>
    ELSE Low32(Tail(ds),
               (hi * 10 + ((lo * 10 + DigitVal(ds[1])) \div 65536)) % 65536,
               (lo * 10 + DigitVal(ds[1])) % 65536)

\* -w modulo 2^32
Negated(w) ==
    IF w[2] = 0 THEN <<(65536 - w[1]) % 65536, 0>>
    ELSE <<65535 - w[1], 65536 - w[2]>>

\* static_cast<int>(long): the low 32 bits as a two's complement int
AsInt(w) ==
    IF w[1] >= 32768 THEN (w[1] - 65536) * 65536 + w[2] ELSE w[1] * 65536 + w[2]

\* toInt on the trimmed text t, the number starting at b: false when stol
\* throws (no digit, or no long) or does not use the whole text
ToIntDigits(t, neg, d0, d1) ==
    IF d1 = d0 \/ d1 # Len(t) + 1 \/ ~InLong(DropZeros(SubSeq(t, d0, d1 - 1)), neg)
    THEN Throws
    ELSE Converted(AsInt(IF neg THEN Negated(Low32(SubSeq(t, d0, d1 - 1), 0, 0))
                         ELSE Low32(SubSeq(t, d0, d1 - 1), 0, 0)))

ToIntAt(t, b) ==
    ToIntDigits(t, IsMinus(t, b), b + SignLen(t, b),
                DigitRunEnd(t, b + SignLen(t, b)))

ToIntTrimmed(t) == ToIntAt(t, SkipSpace(t, 1))

toInt(s) == ToIntTrimmed(trim(s))

\* where stod stops: after the digits, a point and its digits, and an
\* exponent that has a digit
ExponentEnd(s, f1) ==
    IF /\ f1 <= Len(s) /\ s[f1] \in {"e", "E"}
       /\ DigitRunEnd(s, f1 + 1 + SignLen(s, f1 + 1)) > f1 + 1 + SignLen(s, f1 + 1)
    THEN DigitRunEnd(s, f1 + 1 + SignLen(s, f1 + 1))
    ELSE f1

FractionEnd(s, i1) ==
    DigitRunEnd(s, IF i1 <= Len(s) /\ s[i1] = "." THEN i1 + 1 ELSE i1)

StodEnd(s, b) ==
    ExponentEnd(s, FractionEnd(s, DigitRunEnd(s, b + SignLen(s, b))))

\* toDouble on the trimmed text t, v being stod(t): false when stod throws
\* or does not use the whole text
ToDoubleWhole(t, v) ==
    IF v.ok /\ StodEnd(t, SkipSpace(t, 1)) = Len(t) + 1 THEN v ELSE Throws

ToDoubleTrimmed(t) == ToDoubleWhole(t, stod(t))

toDouble(s) == ToDoubleTrimmed(trim(s))

\* a handler that returns without calling the logic layer
Returned(what) ==
    /\ call' = Called(what, 0, <<>>, <<>>, 0, 0, 0, 0)
    /\ UNCHANGED <<items, sales, nextItemId, nextSaleId, itemsFile, salesFile,
                   profitOut, status, issued, distinctRows>>

\* a line read by promptLine, with what the handlers make of it
Line(s) == [text |-> s, cancel |-> isCancel(s), int |-> toInt(s),
            double |-> toDouble(s)]

\* the five lines ui_addItem reads
ui_addItem(name, size, qty, buy, sell) ==
    IF \/ name.cancel \/ trim(name.text) = <<>>
       \/ size.cancel
       \/ qty.cancel \/ ~qty.int.ok
       \/ buy.cancel \/ ~buy.double.ok
       \/ sell.cancel \/ ~sell.double.ok
    THEN Returned("cancelled")
    ELSE logic_addItem(replace(name.text, ",", " "), replace(size.text, ",", " "),
                       qty.int.val, buy.double.val, sell.double.val)

ui_updateItem(id, qty, buy, sell) ==
    IF \/ id.cancel \/ ~id.int.ok
       \/ qty.cancel \/ ~qty.int.ok
       \/ buy.cancel \/ ~buy.double.ok
       \/ sell.cancel \/ ~sell.double.ok
    THEN Returned("cancelled")
    ELSE logic_updateItem(id.int.val, qty.int.val, buy.double.val, sell.double.val)

\* the id line, and the answer to "Are you sure?"
ui_deleteItem(id, confirm) ==
    IF id.cancel \/ ~id.int.ok THEN Returned("cancelled")
    ELSE IF find_if(items, id.int.val) = 0 THEN Returned("not found")
    ELSE IF toLowerStr(trim(confirm.text)) # <<"y">> THEN Returned("cancelled")
    ELSE logic_deleteItem(id.int.val)

\* profit is a local of ui_sellItem, set to 0.0 before the call and gone
\* when the handler returns
ui_sellItem(id, qty, now) ==
    IF \/ id.cancel \/ ~id.int.ok
       \/ qty.cancel \/ ~qty.int.ok
    THEN Returned("cancelled")
    ELSE logic_sellItem(id.int.val, qty.int.val, now)

(***************************************************************************)
(* main: loadData, then the menu loop.                                     *)
(***************************************************************************)
\* what the user types at "Choice: " (the empty text: end of input)
ChoiceTokens ==
    {<<"1">>, <<"2">>, <<"3">>, <<"6">>, <<"8">>, <<"1", "0">>, <<"1", "1">>,
     <<"x">>, <<>>}

CommaName == <<"a", ",", "b">>
NameLines == {Line(CommaName), Line(<<"c">>)}
SizeLines == {Line(Green)}
QtyLines == {Line(<<"7">>), Line(<<"x">>)}
CostLines == {Line(<<"1">>)}
PriceLines == {Line(<<"1">>), Line(<<"2", ".", "5">>)}
IdLines == {Line(<<"2">>), Line(<<"4">>)}
SoldLines == {Line(<<"2">>), Line(<<"-", "1">>)}
ConfirmLines == {Line(<<"y">>), Line(<<"n">>)}

\* cin >> choice; when the extraction fails (no number, a number that is no
\* int, end of input) the stream is cleared and choice is 0
ReadChoice(tok) == IF stoi(tok).ok THEN stoi(tok).val ELSE 0

\* the values choice can take
Choices == {ReadChoice(tok) : tok \in ChoiceTokens}

MainInit ==
    /\ items = <<>>
    /\ sales = <<>>
    /\ nextItemId = 1
    /\ nextSaleId = 1
    /\ \E f \in StartFiles : itemsFile = f[1] /\ salesFile = f[2]
    /\ profitOut = 0
    /\ status = "start"
    /\ call = Called("none", 0, <<>>, <<>>, 0, 0, 0, 0)
    /\ issued = 0
    /\ calls = 0
    /\ choice = 0
    /\ distinctRows = \A m \in LoadItems(FileLines(itemsFile), <<>>, 1) : UniqueIds(m.items)

\* line 510
LoadAtStart ==
    /\ status = "start"
    /\ loadData
    /\ UNCHANGED <<calls, choice>>

\* one more turn of the loop: the last choice was not 10 (line 544), and
\* choice c is read
Choosing(c) ==
    /\ status = "running"
    /\ choice # 10
    /\ calls < MaxCalls
    /\ calls' = calls + 1
    /\ choice' = c

MenuAdd ==
    /\ 1 \in Choices
    /\ Choosing(1)
    /\ Len(items) < MaxItems
    /\ \E name \in NameLines, size \in SizeLines, qty \in QtyLines,
          buy \in CostLines, sell \in PriceLines :
           ui_addItem(name, size, qty, buy, sell)

MenuUpdate ==
    /\ 2 \in Choices
    /\ Choosing(2)
    /\ \E id \in IdLines, qty \in QtyLines, buy \in CostLines, sell \in PriceLines :
           ui_updateItem(id, qty, buy, sell)

MenuDelete ==
    /\ 3 \in Choices
    /\ Choosing(3)
    /\ \E id \in IdLines, confirm \in ConfirmLines : ui_deleteItem(id, confirm)

MenuSell ==
    /\ 6 \in Choices
    /\ Choosing(6)
    /\ Len(sales) < MaxSales
    /\ \E id \in IdLines, qty \in SoldLines, now \in Clock : ui_sellItem(id, qty, now)

\* choices 4, 5, 7, 8, 9: search, low stock, history, list, status print
\* and change nothing
MenuShow ==
    \E c \in Choices \cap {4, 5, 7, 8, 9} :
        /\ Choosing(c)
        /\ Returned("shown")

\* any other choice, 0 of a failed extraction included: no case of the switch
MenuOther ==
    \E c \in Choices \ (1..10) :
        /\ Choosing(c)
        /\ Returned("ignored")

MenuSave ==
    /\ 10 \in Choices
    /\ Choosing(10)
    /\ \E openItems \in BOOLEAN, openSales \in BOOLEAN : saveData(openItems, openSales)

\* while (choice != 10) is false: return 0
LeaveLoop ==
    /\ status = "running"
    /\ choice = 10
    /\ status' = "exited"
    /\ UNCHANGED <<items, sales, nextItemId, nextSaleId, itemsFile, salesFile,
                   profitOut, call, issued, distinctRows, calls, choice>>

MainNext ==
    \/ LoadAtStart \/ MenuAdd \/ MenuUpdate \/ MenuDelete \/ MenuSell
    \/ MenuShow \/ MenuOther \/ MenuSave \/ LeaveLoop

MainSpec == MainInit /\ [][MainNext]_vars

(***************************************************************************)
(* Properties.                                                             *)
(***************************************************************************)
NonNegative(its) == \A i \in 1..Len(its) : its[i].quantity >= 0

\* new = old - q, as integers (old - q is an int and new is that int)
IsDifference(new, old, q) ==
    /\ ~(q < 0 /\ old > IntMax + q)
    /\ ~(q > 0 /\ old < IntMin + q)
    /\ new = old - q

CommaFree(str) == \A i \in 1..Len(str) : str[i] # ","

Written(text) == [exists |-> TRUE, text |-> text]

\* C1: from a store in which every item has quantity >= 0, a logic_sellItem
\* call (any id, any quantity) leaves every quantity >= 0; a sell of more than
\* is on hand returns 2 and leaves the store unchanged.  Stated for one call,
\* it holds of every sequence of calls by induction.
C1_SellKeepsStockNonNegative ==
    [][(call'.op = "sell" /\ NonNegative(items)) =>
           /\ NonNegative(items')
           /\ LET it == find_if(items, call'.id)
              IN (it # 0 /\ call'.qty > items[it].quantity)
                     => (call'.ret = 2 /\ items' = items)]_vars

\* C2: a logic_sellItem(id, q) that returns 0 sets the first matching item's
\* quantity to old - q and changes nothing else in the store, outputs
\* profit = (selling_price - purchase_price) * q, appends exactly one Sale
\* with id = the old nextSaleId, item_id = id, the item's name, quantity_sold
\* = q and that profit, and adds 1 to nextSaleId.
C2_SuccessfulSell ==
    [][(call'.op = "sell" /\ call'.ret = 0) =>
           LET it == find_if(items, call'.id)
               n == Len(sales')
           IN /\ it # 0
              /\ Len(items') = Len(items)
              /\ IsDifference(items'[it].quantity, items[it].quantity, call'.qty)
              /\ items' = [items EXCEPT ![it].quantity = items'[it].quantity]
              /\ profitOut' = (items[it].selling_price - items[it].purchase_price)
                                  * call'.qty
              /\ n = Len(sales) + 1
              /\ SubSeq(sales', 1, n - 1) = sales
              /\ sales'[n].id = nextSaleId
              /\ sales'[n].item_id = call'.id
              /\ sales'[n].item_name = items[it].name
              /\ sales'[n].quantity_sold = call'.qty
              /\ sales'[n].profit = profitOut'
              /\ nextSaleId' = nextSaleId + 1
              /\ nextItemId' = nextItemId]_vars

\* C3: logic_sellItem returns 1 for an id not in the store and 2 for a
\* quantity above the stock on hand, and a call that returns 1 or 2 leaves
\* the items, the sales, both counters and the caller's profit as they were.
C3_FailedSellChangesNothing ==
    [][call'.op = "sell" =>
           LET it == find_if(items, call'.id)
           IN /\ it = 0 => call'.ret = 1
              /\ (it # 0 /\ call'.qty > items[it].quantity) => call'.ret = 2
              /\ call'.ret = 1 => it = 0
              /\ call'.ret = 2 => (it # 0 /\ call'.qty > items[it].quantity)
              /\ call'.ret \in {1, 2} =>
                     /\ items' = items
                     /\ sales' = sales
                     /\ nextItemId' = nextItemId
                     /\ nextSaleId' = nextSaleId
                     /\ profitOut' = profitOut]_vars

\* a sell was refused for lack of stock while the ledger already held a sale
C3_Witness ==
    /\ call.op = "sell"
    /\ call.ret = 2
    /\ sales # <<>>
    /\ profitOut # 0

\* C4: in every state reached by add, update, delete and sell (names without
\* commas), writing both files and loading them back gives the same items
\* and the same sales, in the same order, and counters at least as large as
\* every id present.
C4_RoundTrip ==
    (/\ status = "running"
     /\ call.op \in {"add", "update", "delete", "sell"}
     /\ \A i \in 1..Len(items) : CommaFree(items[i].name)
     /\ \A i \in 1..Len(sales) : CommaFree(sales[i].item_name))
        => \A m \in LoadOutcomes(Written(ItemsText(items)), Written(SalesText(sales))) :
               /\ m.ok
               /\ m.items = items
               /\ m.sales = sales
               /\ \A i \in 1..Len(items) : m.nextItemId >= items[i].id
               /\ \A i \in 1..Len(sales) : m.nextSaleId >= sales[i].id

\* C5: every logic_addItem call returns an id greater than the id every
\* earlier logic_addItem call returned, whatever calls (load included) were
\* made in between.
C5_AddIdsIncrease ==
    [][call'.op = "add" => call'.ret > issued]_vars

C7_QuantityNonNegative == NonNegative(items)

\* C8: loadData with both files absent leaves exactly the three default
\* items, in order, with ids 1, 2, 3, an empty ledger, nextSaleId = 1 and
\* nextItemId = 4; the first logic_addItem after it returns 4.
C8_SeededDefaults ==
    [][/\ (call'.op = "load" /\ ~itemsFile.exists /\ ~salesFile.exists) =>
              /\ items' = <<Item(1, Widget, Small, 10, 10, 16),
                            Item(2, Bolt, Red, 3, 1, 2),
                            Item(3, Gadget, Blue, 20, 20, 30)>>
              /\ sales' = <<>>
              /\ nextSaleId' = 1
              /\ nextItemId' = 4
              /\ status' = "running"
       /\ (/\ call.op = "load"
           /\ ~itemsFile.exists
           /\ ~salesFile.exists
           /\ call'.op = "add") =>
              /\ call'.ret = 4
              /\ items'[4].id = 4]_vars

\* the defaults were seeded from absent files and the next add returned 4
C8_Witness ==
    /\ ~itemsFile.exists
    /\ ~salesFile.exists
    /\ call.op = "add"
    /\ call.ret = 4
    /\ Len(items) = 4
    /\ items[2].name = Bolt

\* C9 as claimed: after logic_deleteItem(id) returns true a lookup of id finds
\* no item; on an id not in the store it returns false and changes nothing.
C9_DeletedIdNotFound ==
    [][call'.op = "delete" =>
           /\ call'.ret = TRUE => find_if(items', call'.id) = 0
           /\ find_if(items, call'.id) = 0 =>
                  /\ call'.ret = FALSE
                  /\ UNCHANGED memory]_vars

\* C9 as amended: logic_deleteItem(id) returns true exactly when the store
\* holds an item with that id, and then removes the first such item and no
\* other; a lookup of id afterwards finds no item when the store held one
\* item with that id only.  On an id not in the store it returns false and
\* leaves the items, the sales and both counters unchanged.
C9_FirstMatchDeleted ==
    [][call'.op = "delete" =>
           LET it == find_if(items, call'.id)
               same == {i \in 1..Len(items) : items[i].id = call'.id}
           IN /\ call'.ret = (it # 0)
              /\ it # 0 =>
                     /\ Len(items') = Len(items) - 1
                     /\ \A i \in 1..Len(items') :
                            items'[i] = IF i < it THEN items[i] ELSE items[i + 1]
              /\ (it # 0 /\ Cardinality(same) = 1) => find_if(items', call'.id) = 0
              /\ it = 0 => items' = items
              /\ UNCHANGED <<sales, nextItemId, nextSaleId>>]_vars

\* an item that was not the last of the store was deleted, and its id is gone
C9_Witness ==
    /\ call.op = "delete"
    /\ call.ret = TRUE
    /\ find_if(items, call.id) = 0
    /\ Len(items) >= 2
    /\ items[Len(items)].id > call.id

IsPrefix(a, b) == Len(a) <= Len(b) /\ SubSeq(b, 1, Len(a)) = a

Increasing(sls) == \A i, j \in 1..Len(sls) : i < j => sls[i].id < sls[j].id

StoreCall(op) == op \in {"add", "update", "delete", "sell"}

\* C11: across every add, update, delete and sell the ledger after the call
\* is an extension of the ledger before it (no sale modified, reordered or
\* removed), it grows only by one sale and only when a sell returns 0, and a
\* ledger whose sale ids are strictly increasing in ledger order stays so.
C11_LedgerAppendOnly ==
    [][StoreCall(call'.op) =>
          /\ IsPrefix(sales, sales')
          /\ sales' # sales =>
                 /\ call'.op = "sell" /\ call'.ret = 0
                 /\ Len(sales') = Len(sales) + 1
          /\ Increasing(sales) => Increasing(sales')]_vars

\* C12: no sale of the ledger has a zero or negative quantity_sold.
C12_SoldQuantityPositive ==
    \A i \in 1..Len(sales) : sales[i].quantity_sold > 0

\* C13: logic_sellItem(id, q) with q <= 0 on an id that is in the store
\* returns 0, leaves the first item with that id at old quantity - q, and
\* appends a sale with quantity_sold = q and profit = (sell - buy) * q.
C13_NonPositiveSellSucceeds ==
    [][(call'.op = "sell" /\ find_if(items, call'.id) # 0 /\ call'.qty <= 0) =>
          /\ call'.ret = 0
          /\ Len(items') = Len(items)
          /\ IsDifference(items'[find_if(items, call'.id)].quantity,
                          items[find_if(items, call'.id)].quantity, call'.qty)
          /\ Len(sales') = Len(sales) + 1
          /\ sales'[Len(sales')].quantity_sold = call'.qty
          /\ sales'[Len(sales')].profit =
                 Profit(items[find_if(items, call'.id)], call'.qty)]_vars

\* C14: logic_updateItem(id, qty, buy, sell) on an id in the store returns
\* true and overwrites quantity, purchase price and selling price of the
\* first item with that id; its id, name and variant, every other item, the
\* order, the ledger and both counters stay.  On an id not in the store it
\* returns false and changes nothing.
C14_UpdateFrame ==
    [][call'.op = "update" =>
          IF find_if(items, call'.id) # 0
          THEN /\ call'.ret = TRUE
               /\ Len(items') = Len(items)
               /\ \A k \in 1..Len(items) :
                      items'[k] = IF k = find_if(items, call'.id)
                                  THEN Item(items[k].id, items[k].name,
                                            items[k].size_color, call'.qty,
                                            call'.buy, call'.sell)
                                  ELSE items[k]
               /\ UNCHANGED <<sales, nextItemId, nextSaleId>>
          ELSE /\ call'.ret = FALSE
               /\ UNCHANGED memory]_vars

\* an update that found its item, in a store of several items with a ledger
C14_Witness ==
    /\ call.op = "update" /\ call.ret = TRUE
    /\ Len(items) >= 2 /\ sales # <<>>
    /\ items[find_if(items, call.id)].quantity = call.qty
    /\ items[find_if(items, call.id)].selling_price = call.sell
    /\ \E k \in 1..Len(items) : items[k].quantity # call.qty

\* C15: while the program runs, nextItemId is greater than the id of every
\* item of the store and nextSaleId is greater than the id of every sale of
\* the ledger (after loadData of any parseable files, after seeding, after
\* any add, update, delete and sell).
C15_CountersAboveIds ==
    status = "running" =>
        /\ \A k \in 1..Len(items) : items[k].id < nextItemId
        /\ \A k \in 1..Len(sales) : sales[k].id < nextSaleId

\* C16: loadData always completes and returns control, whatever the rows of
\* the two files hold.
C16_LoadCompletes ==
    call.op = "load" => status = "running"

\* the number of lines of a file that loadData converts: not blank, and of
\* six or more fields
RowCount(file) ==
    Cardinality({k \in 1..Len(FileLines(file)) :
                     /\ trim(FileLines(file)[k]) # <<>>
                     /\ Len(parseCSV(FileLines(file)[k])) >= 6})

Defaults ==
    <<Item(1, Widget, Small, 10, 10, 16), Item(2, Bolt, Red, 3, 1, 2),
      Item(3, Gadget, Blue, 20, 20, 30)>>

\* C17: a loadData that returns has seeded the three default items exactly
\* when neither file gave a row (absent, empty, or only skipped rows), and
\* then the ledger is empty; otherwise the store holds the loaded rows and
\* nothing else, so an empty item file with a loaded sale leaves it empty.
C17_SeedsIffBothEmpty ==
    [][(call'.op = "load" /\ status' = "running") =>
          IF RowCount(itemsFile) = 0 /\ RowCount(salesFile) = 0
          THEN items' = Defaults /\ sales' = <<>>
          ELSE /\ Len(items') = RowCount(itemsFile)
               /\ Len(sales') = RowCount(salesFile)]_vars

\* a load of an item file of skipped rows only and a sale file of one sale:
\* the store is empty
C17_Witness ==
    /\ call.op = "load" /\ status = "running"
    /\ itemsFile.exists /\ itemsFile.text # <<>> /\ RowCount(itemsFile) = 0
    /\ RowCount(salesFile) = 1
    /\ items = <<>> /\ Len(sales) = 1

\* the store holds the id more than once
Repeated(its, id) ==
    \E i, j \in 1..Len(its) : i < j /\ its[i].id = id /\ its[j].id = id

\* the position of the first item of the store with the id
FirstWith(its, id) ==
    CHOOSE i \in 1..Len(its) :
        its[i].id = id /\ \A j \in 1..(i - 1) : its[j].id # id

SameButAt(new, old, i) ==
    /\ Len(new) = Len(old)
    /\ \A k \in 1..Len(old) : k # i => new[k] = old[k]

\* C18: when the store holds an id more than once, delete, update and sell
\* of that id act on the first such item only: delete removes it and keeps
\* the others in order, update and sell change no other item, and the return
\* code, the profit and the sale's item_name of a sell come from the first.
C18_FirstOccurrenceWins ==
    [][(/\ call'.op \in {"delete", "update", "sell"}
        /\ Repeated(items, call'.id)
        /\ status' = "running") =>
          LET i == FirstWith(items, call'.id)
          IN CASE call'.op = "delete" ->
                      /\ call'.ret = TRUE
                      /\ items' = SubSeq(items, 1, i - 1)
                                      \o SubSeq(items, i + 1, Len(items))
               [] call'.op = "update" ->
                      /\ call'.ret = TRUE
                      /\ SameButAt(items', items, i)
                      /\ items'[i].quantity = call'.qty
                      /\ items'[i].name = items[i].name
               [] call'.op = "sell" ->
                      /\ call'.ret = IF call'.qty > items[i].quantity THEN 2 ELSE 0
                      /\ SameButAt(items', items, i)
                      /\ call'.ret = 2 => items' = items /\ sales' = sales
                      /\ call'.ret = 0 =>
                             /\ items'[i].quantity # items[i].quantity
                             /\ sales'[Len(sales')].item_name = items[i].name
                             /\ sales'[Len(sales')].profit = Profit(items[i], call'.qty)
                             /\ profitOut' = Profit(items[i], call'.qty)]_vars

\* a sell of 5 refused because the first item with the id holds less, while
\* a later item with the same id holds enough
C18_Witness ==
    /\ call.op = "sell" /\ call.ret = 2 /\ call.qty = 5
    /\ Repeated(items, call.id)
    /\ items[FirstWith(items, call.id)].quantity < 5
    /\ \E k \in 1..Len(items) : items[k].id = call.id /\ items[k].quantity >= 5

\* the file holds exactly these records: one line per record, in this order
HoldsRecords(file, lines) ==
    /\ file.exists
    /\ Len(GetLines(file.text, "\n")) = Len(lines)
    /\ \A k \in 1..Len(lines) : GetLines(file.text, "\n")[k] \o <<"\n">> = lines[k]

\* C19: saveData leaves items, sales and both counters as they are and the
\* program running; each file that can be opened holds afterwards exactly
\* the current collection, one record per element in store order, whether or
\* not the other file could be opened; a file that cannot be opened is left
\* as it was.
C19_SaveFrame ==
    [][call'.op = "save" =>
          /\ UNCHANGED memory
          /\ status' = status
          /\ IF call'.opened[1]
             THEN HoldsRecords(itemsFile', [k \in 1..Len(items) |-> ItemLine(items[k])])
             ELSE itemsFile' = itemsFile
          /\ IF call'.opened[2]
             THEN HoldsRecords(salesFile', [k \in 1..Len(sales) |-> SaleLine(sales[k])])
             ELSE salesFile' = salesFile]_vars

\* a save in which items.csv could not be opened and sales.csv was written
\* with the ledger, replacing a sale file of another content
C19_Witness ==
    /\ call.op = "save" /\ call.opened = <<FALSE, TRUE>>
    /\ Len(sales) = 2
    /\ HoldsRecords(salesFile, [k \in 1..Len(sales) |-> SaleLine(sales[k])])
    /\ ~HoldsRecords(itemsFile, [k \in 1..Len(items) |-> ItemLine(items[k])])

\* C20: in a run of main loadData is the first thing done and is not done
\* again; saveData runs in exactly the turns of the loop that read choice
\* 10, and the loop is left right after it; a turn with any other choice (0
\* of unparseable input or of the end of input included) writes no file and
\* does not leave the loop; a run that has terminated has its final items
\* and sales in the two files.
C20_MainControlFlow ==
    [][/\ status = "start" => call'.op = "load"
       /\ calls' # calls =>
              /\ call'.op # "load"
              /\ call'.op = "save" <=> choice' = 10
              /\ choice' # 10 => /\ UNCHANGED <<itemsFile, salesFile>>
                                 /\ status' # "exited"
       /\ choice = 10 => status' = "exited"
       /\ status' = "exited" => choice = 10 /\ call.op = "save"
       /\ status' \in {"exited", "aborted"} =>
              /\ HoldsRecords(itemsFile', [k \in 1..Len(items') |-> ItemLine(items'[k])])
              /\ HoldsRecords(salesFile', [k \in 1..Len(sales') |-> SaleLine(sales'[k])])
      ]_vars

=============================================================================
